---- MODULE Spec2Model ----
(***************************************************************************)
(* Model of assets/app.js: a document-level keydown listener that maps the *)
(* four arrow keys to click() calls on four buttons looked up by id.       *)
(*                                                                         *)
(* The host (browser) side that the script relies on is modelled by what   *)
(* it does: addEventListener keeps a list of registrations, dispatching a  *)
(* keydown event invokes every registered listener, getElementById yields  *)
(* null for a missing id, and calling a method on null throws a TypeError  *)
(* that ends the running listener (the host reports it and goes on).       *)
(***************************************************************************)
EXTENDS Integers, Sequences, FiniteSets, TLC

\* ---------------------------------------------------------------- bounds
MaxEvents == 3       \* keydown events dispatched in one behaviour
MaxDomChanges == 1   \* element insertions/removals done by the page

\* ------------------------------------------------------------ vocabulary
RecognizedKeys == {"ArrowLeft", "ArrowRight", "ArrowUp", "ArrowDown"}
OtherKeys == {"Enter", "a"}
Keys == RecognizedKeys \cup OtherKeys

ButtonIds == {"move-left", "move-right", "move-up", "move-down"}

Null == "null"

VARIABLES
  pc,          \* "load": script not yet executed; "ready": line 1 has run
  listeners,   \* keydown registrations on document, in registration order
  elements,    \* ids of the elements present in the document
  keys,        \* key names of the keydown events dispatched so far
  log,         \* one record per invocation of clickButtonFunction
  clicks,      \* ids on which click() was called, in call order
  domChanges   \* number of page-side document changes so far

vars == <<pc, listeners, elements, keys, log, clicks, domChanges>>

\* ------------------------------------------------------------- host DOM
\* document.getElementById(id): the element, or null when there is none.
getElementById(doc, id) == IF id \in doc THEN id ELSE Null

\* A running invocation: the document it sees, the click() calls it has
\* made, and whether it has been ended by an uncaught TypeError.
Start(doc) == [doc |-> doc, clicks |-> <<>>, error |-> FALSE]

\* el.click() inside an invocation.  On null the property access throws;
\* nothing after a throw is executed.
clickRemoves(st, el) ==
  IF st.error THEN st
  ELSE IF el = Null THEN [st EXCEPT !.error = TRUE]
  ELSE [st EXCEPT !.clicks = Append(@, el), !.doc = @ \ {el}]

click(st, el) ==
  IF st.error THEN st
  ELSE IF el = Null THEN [st EXCEPT !.error = TRUE]
  ELSE [st EXCEPT !.clicks = Append(@, el)]

\* One  if(event.key == name){ document.getElementById(id).click(); }
IfKey(st, key, name, id) ==
  IF st.error THEN st
  ELSE IF key = name THEN click(st, getElementById(st.doc, id))
  ELSE st

\* -------------------------------------------------- clickButtonFunction
\* Variants of the handler used to test the sensitivity of the properties.
clickButtonFunctionFallThrough(key, doc) ==
  LET s1 == IfKey(Start(doc), key, "ArrowLeft", "move-left")
      s2 == IfKey(s1, key, "ArrowRight", "move-right")
      s3 == IfKey(s2, key, "ArrowUp", "move-up")
      s4 == IF key \in {"ArrowUp", "ArrowDown"}
              THEN click(s3, getElementById(s3.doc, "move-down")) ELSE s3
  IN s4

clickButtonFunctionDefault(key, doc) ==
  LET s1 == IfKey(Start(doc), key, "ArrowLeft", "move-left")
      s2 == IfKey(s1, key, "ArrowRight", "move-right")
      s3 == IfKey(s2, key, "ArrowUp", "move-up")
      s4 == IF key \notin {"ArrowLeft", "ArrowRight", "ArrowUp"}
              THEN click(s3, getElementById(s3.doc, "move-down")) ELSE s3
  IN s4

clickButtonFunctionSwapped(key, doc) ==
  LET s1 == IfKey(Start(doc), key, "ArrowLeft", "move-right")
      s2 == IfKey(s1, key, "ArrowRight", "move-left")
      s3 == IfKey(s2, key, "ArrowUp", "move-up")
      s4 == IfKey(s3, key, "ArrowDown", "move-down")
  IN s4

clickButtonFunctionDebounced(key, doc) ==
  IF keys # <<>> /\ keys[Len(keys)] = key THEN Start(doc)
  ELSE
    LET s1 == IfKey(Start(doc), key, "ArrowLeft", "move-left")
        s2 == IfKey(s1, key, "ArrowRight", "move-right")
        s3 == IfKey(s2, key, "ArrowUp", "move-up")
        s4 == IfKey(s3, key, "ArrowDown", "move-down")
    IN s4

clickButtonFunctionFirstOnly(key, doc) ==
  IF \E i \in DOMAIN log : log[i].clicks # <<>> THEN Start(doc)
  ELSE
    LET s1 == IfKey(Start(doc), key, "ArrowLeft", "move-left")
        s2 == IfKey(s1, key, "ArrowRight", "move-right")
        s3 == IfKey(s2, key, "ArrowUp", "move-up")
        s4 == IfKey(s3, key, "ArrowDown", "move-down")
    IN s4

clickButtonFunctionEager(key, doc) ==
  LET left  == getElementById(doc, "move-left")
      right == getElementById(doc, "move-right")
      up    == getElementById(doc, "move-up")
      down  == getElementById(doc, "move-down")
      s0 == IF key \in RecognizedKeys /\ Null \in {left, right, up, down}
              THEN [Start(doc) EXCEPT !.error = TRUE] ELSE Start(doc)
      s1 == IF key = "ArrowLeft" THEN click(s0, left) ELSE s0
      s2 == IF key = "ArrowRight" THEN click(s1, right) ELSE s1
      s3 == IF key = "ArrowUp" THEN click(s2, up) ELSE s2
      s4 == IF key = "ArrowDown" THEN click(s3, down) ELSE s3
  IN s4

clickButtonFunctionRemoving(key, doc) ==
  LET rm(st, name, id) ==
        IF st.error THEN st
        ELSE IF key = name THEN clickRemoves(st, getElementById(st.doc, id))
        ELSE st
      s1 == rm(Start(doc), "ArrowLeft", "move-left")
      s2 == rm(s1, "ArrowRight", "move-right")
      s3 == rm(s2, "ArrowUp", "move-up")
      s4 == rm(s3, "ArrowDown", "move-down")
  IN s4

\* function clickButtonFunction(event){ four independent if statements }
clickButtonFunction(key, doc) ==
  LET s1 == IfKey(Start(doc), key, "ArrowLeft", "move-left")
      s2 == IfKey(s1, key, "ArrowRight", "move-right")
      s3 == IfKey(s2, key, "ArrowUp", "move-up")
      s4 == IfKey(s3, key, "ArrowDown", "move-down")
  IN s4

\* --------------------------------------------------------- registration
\* document.addEventListener("keydown", fn): a registration equal to an
\* existing one is dropped; without options the listener is not "once".
addEventListenerOnce(ls, fn) ==
  IF \E i \in DOMAIN ls : ls[i].fn = fn THEN ls
  ELSE Append(ls, [fn |-> fn, once |-> TRUE])

addEventListener(ls, fn) ==
  IF \E i \in DOMAIN ls : ls[i].fn = fn THEN ls
  ELSE Append(ls, [fn |-> fn, once |-> FALSE])

\* Registrations that survive a dispatch: "once" listeners are removed
\* when invoked; an exception thrown by a listener removes nothing.
AfterDispatch(ls) == SelectSeq(ls, LAMBDA l : ~l.once)

\* Dispatch of one keydown event: every registered listener is invoked in
\* order, each to completion, on the document the previous one left.
RECURSIVE Dispatch(_, _, _, _)
Dispatch(ls, i, key, w) ==
  IF i > Len(ls) THEN w
  ELSE LET r == clickButtonFunction(key, w.doc)
       IN Dispatch(ls, i + 1, key,
            [doc    |-> r.doc,
             log    |-> Append(w.log, [key |-> key, elems |-> w.doc,
                                       clicks |-> r.clicks, error |-> r.error]),
             clicks |-> w.clicks \o r.clicks])

\* ------------------------------------------------------------- behaviour
Init ==
  /\ pc = "load"
  /\ listeners = <<>>
  /\ elements \in SUBSET ButtonIds
  /\ keys = <<>>
  /\ log = <<>>
  /\ clicks = <<>>
  /\ domChanges = 0

\* Line 1: the script is executed once when the page loads it.
Load ==
  /\ pc = "load"
  /\ pc' = "ready"
  /\ listeners' = addEventListener(listeners, "clickButtonFunction")
  /\ UNCHANGED <<elements, keys, log, clicks, domChanges>>

\* The host delivers a keydown event with event.key = key.
KeyDown(key) ==
  /\ pc = "ready"
  /\ Len(keys) < MaxEvents
  /\ LET w == Dispatch(listeners, 1, key,
                       [doc |-> elements, log |-> log, clicks |-> clicks])
     IN /\ elements' = w.doc
        /\ log' = w.log
        /\ clicks' = w.clicks
  /\ keys' = Append(keys, key)
  /\ listeners' = AfterDispatch(listeners)
  /\ UNCHANGED <<pc, domChanges>>

\* The page (not this script) inserts or removes one of the buttons.
AddElement(id) ==
  /\ id \notin elements
  /\ domChanges < MaxDomChanges
  /\ elements' = elements \cup {id}
  /\ domChanges' = domChanges + 1
  /\ UNCHANGED <<pc, listeners, keys, log, clicks>>

RemoveElement(id) ==
  /\ id \in elements
  /\ domChanges < MaxDomChanges
  /\ elements' = elements \ {id}
  /\ domChanges' = domChanges + 1
  /\ UNCHANGED <<pc, listeners, keys, log, clicks>>

Next ==
  \/ Load
  \/ \E key \in Keys : KeyDown(key)
  \/ \E id \in ButtonIds : AddElement(id)
  \/ \E id \in ButtonIds : RemoveElement(id)

Spec == Init /\ [][Next]_vars

\* ------------------------------------------------------------ properties
\* The key-to-button mapping the documentation states.
Target(key) ==
  CASE key = "ArrowLeft"  -> "move-left"
    [] key = "ArrowRight" -> "move-right"
    [] key = "ArrowUp"    -> "move-up"
    [] key = "ArrowDown"  -> "move-down"

TypeOK ==
  /\ pc \in {"load", "ready"}
  /\ elements \subseteq ButtonIds
  /\ Len(keys) <= MaxEvents
  /\ domChanges <= MaxDomChanges

Recognized(i) == log[i].key \in RecognizedKeys
Present(i) == Recognized(i) /\ Target(log[i].key) \in log[i].elems
Absent(i) == Recognized(i) /\ Target(log[i].key) \notin log[i].elems
AllPresent == \A i \in DOMAIN log : log[i].elems = ButtonIds
IsRecognizedKey(k) == k \in RecognizedKeys
Registered ==
  /\ Len(listeners) = 1
  /\ listeners[1].fn = "clickButtonFunction"

\* C1: a keydown event with a recognized key whose target element is
\* present adds exactly one activation, of the element mapped to that key,
\* and none of any other element.
C1_OneActivationOfTarget ==
  [][\A k \in RecognizedKeys :
       (keys' = Append(keys, k) /\ Target(k) \in elements)
         => clicks' = Append(clicks, Target(k))]_vars

C1_Witness ==
  /\ Len(keys) = 1
  /\ keys[1] \in RecognizedKeys
  /\ clicks = <<Target(keys[1])>>

\* C2: an invocation for a key outside the four recognized names makes no
\* activation and raises no error, whatever elements the document holds.
C2_OtherKeyInert ==
  \A i \in DOMAIN log :
    ~Recognized(i) => (log[i].clicks = <<>> /\ ~log[i].error)

C2_Witness ==
  \E i \in DOMAIN log :
    /\ log[i].key \in OtherKeys
    /\ log[i].elems # {}
    /\ log[i].elems # ButtonIds

\* C3: an invocation for a recognized key whose target element is absent
\* raises no error and makes no activation (a silent no-op).
C3_AbsentTargetSilent ==
  \A i \in DOMAIN log :
    Absent(i) => (~log[i].error /\ log[i].clicks = <<>>)

\* C4: once a recognized key has been pressed with its target absent, the
\* listener is still registered, every key event is still handled, and a
\* later recognized key whose target is present activates exactly it.
C4_ListenerSurvivesAbsentTarget ==
  \A i \in DOMAIN keys :
    (i \in DOMAIN log /\ Absent(i)) =>
      /\ Registered
      /\ Len(log) = Len(keys)
      /\ \A j \in DOMAIN log :
           (j > i /\ Present(j)) => log[j].clicks = <<Target(log[j].key)>>

C4_Witness ==
  \E i \in DOMAIN log : \E j \in DOMAIN log :
    /\ i < j
    /\ Absent(i)
    /\ Present(j)
    /\ log[j].clicks = <<Target(log[j].key)>>

\* C5: when all four targets are present at every key press, the sequence
\* of activations is the sequence of recognized keys pressed, in press
\* order, each mapped to its target.
C5_ActivationsFollowKeyOrder ==
  AllPresent =>
    LET pressed == SelectSeq(keys, IsRecognizedKey)
    IN clicks = [i \in 1..Len(pressed) |-> Target(pressed[i])]

C5_Witness ==
  /\ AllPresent
  /\ Len(keys) = 2
  /\ Len(clicks) = 2
  /\ keys[1] # keys[2]
  /\ clicks[1] # clicks[2]

\* C6: N presses of one recognized key, its target present at each, make
\* exactly N activations of that target, one within each invocation.
C6_NoDebounce ==
  \A k \in RecognizedKeys :
    ( /\ \A i \in DOMAIN keys : keys[i] = k
      /\ \A i \in DOMAIN log : Target(k) \in log[i].elems )
    => /\ clicks = [i \in 1..Len(keys) |-> Target(k)]
       /\ \A i \in DOMAIN log : log[i].clicks = <<Target(k)>>

C6_Witness ==
  /\ Len(keys) >= 3
  /\ \A i \in DOMAIN keys : keys[i] = keys[1]
  /\ keys[1] \in RecognizedKeys
  /\ Len(clicks) = Len(keys)

C8_HandlerOnlyReads ==
  [][keys' # keys =>
       (elements' = elements /\ listeners' = listeners /\ pc' = pc)]_vars

C8_Witness ==
  /\ log # <<>>
  /\ log[Len(log)].clicks # <<>>
  /\ log[Len(log)].elems = elements
  /\ Registered

\* C9: in every state after script load there is exactly one registration
\* of clickButtonFunction, and every key event dispatched has invoked the
\* handler exactly once.
C9_RegisteredExactlyOnce ==
  pc = "ready" => (Registered /\ Len(log) = Len(keys))

C9_Witness ==
  /\ pc = "ready"
  /\ Len(keys) >= 2
  /\ Len(log) = Len(keys)
  /\ Len(listeners) = 1

\* C10: an invocation for a recognized key whose own target is present
\* activates exactly that target and raises no error, however many of the
\* other three targets are absent.
C10_OtherTargetsIrrelevant ==
  \A i \in DOMAIN log :
    Present(i) => (log[i].clicks = <<Target(log[i].key)>> /\ ~log[i].error)

C10_Witness ==
  \E i \in DOMAIN log :
    /\ Recognized(i)
    /\ log[i].elems = {Target(log[i].key)}
    /\ log[i].clicks = <<Target(log[i].key)>>

====
